---- MODULE Spec2Model ----
(***************************************************************************)
(* Model of twext/who/xml.py: the XML directory service.                   *)
(*                                                                         *)
(* A DirectoryService lazily loads an XML document (the source file) into  *)
(* four cached attributes: _realmName, _unknownRecordTypes,                *)
(* _unknownFieldNames and _index.  The model keeps the source document as  *)
(* its parse tree, the object's attribute dictionary as a function whose   *)
(* domain is the set of attributes present (so hasattr is a domain test),  *)
(* and loadRecords as an operator computed the way the code computes it.   *)
(***************************************************************************)
EXTENDS Integers, Sequences, FiniteSets, TLC

VARIABLES
    file,       \* current contents of the source (filePath), as a parse tree
    store,      \* the service's cached attributes: name -> value, present ones only
    lastLoad,   \* history of the last successful loadRecords: its records, the record
                \* node each came from, and whether it replaced other records
    lastOp,     \* the last operation performed and its outcome
    edits,      \* number of changes made to the source so far
    pc,         \* per thread: position inside a property read (concurrent specification)
    locals,     \* per thread: the results its loadRecords computed and has yet to store
    reading     \* per thread: the property it is reading

vars == <<file, store, lastLoad, lastOp, edits, pc, locals, reading>>

----------------------------------------------------------------------------
(* Bounds *)

MaxRecords == 2     \* record elements in a document of the parser specification
MaxFields == 2      \* field elements in a document of the parser specification, in total
MaxEdits == 2       \* changes made to the source file in one behaviour

\* Input alphabets
Tags == {"uid", "short-name", "full-name", "member-uid", "nickname"}
Texts == {"", "a", "b"}
TypeTokens == {"<missing>", "group", "bogus"}
Roots == {"directory", "dir"}
Realms == {"<missing>", "", "r1", "r2"}
Threads == {1, 2}

----------------------------------------------------------------------------
(* Python values *)

None == "<None>"          \* Python's None
Unbound == "<unbound>"    \* a local variable that has not been assigned yet
Missing == "<missing>"    \* an attribute the element does not carry

----------------------------------------------------------------------------
(* XML constants *)

\* Element: the values of the constants
ElementValues ==
    {"directory", "record", "uid", "guid", "short-name", "full-name",
     "email", "password", "member-uid"}

\* Element.<constant>.fieldName, for the constants that have one
ElementFieldName ==
    ("uid" :> "uid") @@ ("guid" :> "guid") @@ ("short-name" :> "shortNames")
    @@ ("full-name" :> "fullNames") @@ ("email" :> "emailAddresses")
    @@ ("password" :> "password")

\* Value: the values of the constants
ValueValues == {"true", "false", "user", "group"}

\* Value.<constant>.recordType, for the constants that have one
ValueRecordType == ("user" :> "user") @@ ("group" :> "group")

\* DirectoryService.indexedFields
indexedFields == {"recordType", "uid", "guid", "shortNames", "emailAddresses"}

\* FieldName.isMultiValue (twext.who.idirectory)
isMultiValue(fieldName) == fieldName \in {"shortNames", "fullNames", "emailAddresses"}

\* DirectoryRecord(service, fields): a value object, equal when its fields are
DirectoryRecord(fields) == fields

----------------------------------------------------------------------------
(* The parse tree *)

\* ElementTree: the text of an element without text content is None
ElementText(node) == IF node.text = "" THEN None ELSE node.text

\* getAttribute(node, name): node.get(name, ""), "" when the attribute is missing
getAttribute(value) == IF value = Missing THEN "" ELSE value

\* self.ElementClass.lookupByValue(tag).fieldName raises ValueError (no such
\* constant) or AttributeError (a constant without fieldName)
fieldNameLookupFails(tag) ==
    tag \notin ElementValues \/ tag \notin DOMAIN ElementFieldName

\* self.ValueClass.lookupByValue(token).recordType raises likewise
recordTypeLookupFails(token) ==
    token \notin ValueValues \/ token \notin DOMAIN ValueRecordType

----------------------------------------------------------------------------
(* loadRecords: pulling data from the DOM *)

\* fields.setdefault(fieldName, []).append(value), or fields[fieldName] = value
storeField(fields, fieldName, value) ==
    IF isMultiValue(fieldName)
    THEN (fieldName :>
            Append(IF fieldName \in DOMAIN fields THEN fields[fieldName] ELSE <<>>,
                   value)) @@ fields
    ELSE (fieldName :> value) @@ fields

\* The loop over recordNode.getchildren().  fieldName is a local of
\* loadRecords: after a failed lookup it keeps the value an earlier element
\* gave it, or is still unbound.  acc holds the locals of loadRecords.
RECURSIVE loadFields(_, _, _)
loadFields(children, j, acc) ==
    IF j > Len(children) \/ acc.error # "none" THEN acc
    ELSE LET node == children[j]
             fails == fieldNameLookupFails(node.tag)
             fieldName == IF fails THEN acc.fieldName ELSE ElementFieldName[node.tag]
             unknown == IF fails THEN acc.unknownFieldNames \cup {node.tag}
                        ELSE acc.unknownFieldNames
             value == ElementText(node)
         IN  IF value = None
             THEN [acc EXCEPT !.error = "AttributeError",
                              !.unknownFieldNames = unknown]
             ELSE IF fieldName = Unbound
             THEN [acc EXCEPT !.error = "UnboundLocalError",
                              !.unknownFieldNames = unknown]
             ELSE loadFields(children, j + 1,
                    [acc EXCEPT !.fields = storeField(@, fieldName, value),
                                !.fieldName = fieldName,
                                !.unknownFieldNames = unknown])

\* records.add(DirectoryRecord(self, fields)), reached when no field raised
addRecord(i, acc) ==
    IF acc.error # "none" THEN acc
    ELSE [acc EXCEPT !.records = @ \cup {DirectoryRecord(acc.fields)},
                     !.at = (i :> DirectoryRecord(acc.fields)) @@ @]

\* A record with an unrecognized type: the index of the next record node the
\* loop handles (break leaves the loop)
ContinueAfterUnknownRecordType(nodes, i) == i + 1
afterUnknownRecordType(nodes, i) == Len(nodes) + 1

\* The loop over directoryNode.getchildren()
RECURSIVE loadRecordNodes(_, _, _)
loadRecordNodes(nodes, i, acc) ==
    IF i > Len(nodes) \/ acc.error # "none" THEN acc
    ELSE LET attribute == getAttribute(nodes[i].type)
             recordTypeAttribute == IF attribute = "" THEN "user" ELSE attribute
         IN  IF recordTypeLookupFails(recordTypeAttribute)
             THEN loadRecordNodes(nodes, afterUnknownRecordType(nodes, i),
                    [acc EXCEPT !.unknownRecordTypes = @ \cup {recordTypeAttribute}])
             ELSE loadRecordNodes(nodes, i + 1,
                    addRecord(i, loadFields(nodes[i].children, 1,
                        [acc EXCEPT !.fields =
                            ("recordType" :> ValueRecordType[recordTypeAttribute])])))

----------------------------------------------------------------------------
(* loadRecords: the index *)

\* The values a record's field is indexed under
IndexFirstValueOnly(fieldName, values) ==
    IF isMultiValue(fieldName) THEN {values[1]} ELSE {values}
indexValues(fieldName, values) ==
    IF isMultiValue(fieldName)
    THEN {values[k] : k \in 1..Len(values)}
    ELSE {values}

buildIndex(records) ==
    [fieldName \in indexedFields |->
        LET having == {record \in records : fieldName \in DOMAIN record}
            keys == UNION {indexValues(fieldName, record[fieldName]) : record \in having}
        IN  [value \in keys |->
                {record \in having : value \in indexValues(fieldName, record[fieldName])}]]

\* What a loadRecords that raises leaves behind: nothing
failed(error) ==
    [error |-> error, realmName |-> None, unknownRecordTypes |-> {},
     unknownFieldNames |-> {}, records |-> {}, at |-> <<>>, index |-> <<>>]

\* The locals of loadRecords when the loop over the records has ended
results(realmName, acc) ==
    IF acc.error # "none" THEN failed(acc.error)
    ELSE [error |-> "none",
          realmName |-> realmName,
          unknownRecordTypes |-> acc.unknownRecordTypes,
          unknownFieldNames |-> acc.unknownFieldNames,
          records |-> acc.records,
          at |-> acc.at,
          index |-> buildIndex(acc.records)]

\* Everything loadRecords computes before it stores anything
parseDocument(doc) ==
    IF ~doc.wellFormed THEN failed("XMLParseError")
    ELSE IF doc.root # "directory" THEN failed("DirectoryServiceError")
    ELSE IF getAttribute(doc.realm) = "" THEN failed("DirectoryServiceError")
    ELSE results(getAttribute(doc.realm),
                 loadRecordNodes(doc.records, 1,
                    [records |-> {}, at |-> <<>>, unknownRecordTypes |-> {},
                     unknownFieldNames |-> {}, fieldName |-> Unbound,
                     fields |-> <<>>, error |-> "none"]))

----------------------------------------------------------------------------
(* loadRecords: storing the results *)

EmptyStore == [name \in {} |-> None]

\* self.<name> = value
storeAttr(st, name, value) == (name :> value) @@ st

\* The four assignments that end loadRecords
StoreResultsUpdatingIndex(st, r) ==
    LET old == IF "_index" \in DOMAIN st THEN st["_index"]
               ELSE [fieldName \in indexedFields |-> <<>>]
        merged == [fieldName \in indexedFields |->
                      [value \in DOMAIN old[fieldName] \cup DOMAIN r.index[fieldName] |->
                          (IF value \in DOMAIN old[fieldName]
                           THEN old[fieldName][value] ELSE {})
                          \cup (IF value \in DOMAIN r.index[fieldName]
                                THEN r.index[fieldName][value] ELSE {})]]
    IN  storeAttr(storeAttr(storeAttr(storeAttr(st,
            "_realmName", r.realmName),
            "_unknownRecordTypes", r.unknownRecordTypes),
            "_unknownFieldNames", r.unknownFieldNames),
            "_index", merged)
storeResults(st, r) ==
    storeAttr(storeAttr(storeAttr(storeAttr(st,
        "_realmName", r.realmName),
        "_unknownRecordTypes", r.unknownRecordTypes),
        "_unknownFieldNames", r.unknownFieldNames),
        "_index", r.index)

\* loadRecords once everything is computed: it raises, or stores the results.
\* Gives the store afterwards, the exception raised ("none" when it returns)
\* and what was computed.
loaded(st, r) ==
    IF r.error # "none"
    THEN [store |-> st, raised |-> r.error, parsed |-> r]
    ELSE [store |-> storeResults(st, r), raised |-> "none", parsed |-> r]

\* loadRecords as one call
LoadRecordsStoringRealmFirst(st, doc) ==
    loaded(IF doc.wellFormed /\ doc.root = "directory" /\ getAttribute(doc.realm) # ""
           THEN storeAttr(st, "_realmName", getAttribute(doc.realm))
           ELSE st,
           parseDocument(doc))
loadRecords(st, doc) == loaded(st, parseDocument(doc))

----------------------------------------------------------------------------
(* The properties *)

\* not hasattr(self, name)
NeedsLoadAlways(st, name) == TRUE
needsLoad(st, name) == name \notin DOMAIN st

\* return self.<name>, after loadRecords ran with outcome l
returned(name, l) ==
    [store |-> l.store, ranLoad |-> TRUE, raised |-> l.raised, parsed |-> l.parsed,
     result |-> IF l.raised = "none" THEN l.store[name] ELSE None]

\* A property getter: load if the attribute is not there, then return it
getProperty(st, name, doc) ==
    IF needsLoad(st, name)
    THEN returned(name, loadRecords(st, doc))
    ELSE [store |-> st, ranLoad |-> FALSE, raised |-> "none",
          parsed |-> failed("none"), result |-> st[name]]

\* The realmName setter
SetRealmNameAssigning(st, value) ==
    [store |-> IF value # None THEN storeAttr(st, "_realmName", value) ELSE st,
     raised |-> "none"]
setRealmName(st, value) ==
    [store |-> st,
     raised |-> IF value # None THEN "AssertionError" ELSE "none"]

----------------------------------------------------------------------------
(* Initial state: a constructed service, nothing loaded *)

EmptyDirectory ==
    [wellFormed |-> TRUE, root |-> "directory", realm |-> "r1", records |-> <<>>]

\* <directory realm="r1"><record><uid>a</uid><short-name>a</short-name>
\*   <full-name>b</full-name></record></directory>
ExampleDirectory ==
    [wellFormed |-> TRUE, root |-> "directory", realm |-> "r1",
     records |-> << [type |-> Missing,
                     children |-> << [tag |-> "uid", text |-> "a"],
                                     [tag |-> "short-name", text |-> "a"],
                                     [tag |-> "full-name", text |-> "b"] >>] >>]

SeedDocs == {EmptyDirectory, ExampleDirectory}

NoResult == [error |-> "<not run>"]
NoOp == [op |-> "init", name |-> None, value |-> None, ranLoad |-> FALSE,
         raised |-> "none", result |-> None]

\* BaseDirectoryService.__init__(self, realmName=None): assigns the realmName
\* property, whose setter lets None pass and stores nothing
BaseInit(st) == setRealmName(st, None).store

InitService ==
    /\ store = BaseInit(EmptyStore)
    /\ lastLoad = [done |-> FALSE, replaced |-> FALSE, records |-> {}, at |-> <<>>]
    /\ lastOp = NoOp
    /\ edits = 0
    /\ pc = [t \in Threads |-> "idle"]
    /\ locals = [t \in Threads |-> NoResult]
    /\ reading = [t \in Threads |-> None]

Init ==
    /\ file \in SeedDocs
    /\ InitService

----------------------------------------------------------------------------
(* Operations of a single caller *)

\* The effect of an operation that may have run loadRecords
Finish(op, name, out) ==
    /\ store' = out.store
    /\ lastLoad' = IF out.ranLoad /\ out.raised = "none"
                   THEN [done |-> TRUE,
                         replaced |-> lastLoad.done /\ lastLoad.records # out.parsed.records,
                         records |-> out.parsed.records,
                         at |-> out.parsed.at]
                   ELSE lastLoad
    /\ lastOp' = [op |-> op, name |-> name, value |-> None, ranLoad |-> out.ranLoad,
                  raised |-> out.raised, result |-> out.result]
    /\ UNCHANGED <<file, edits, pc, locals, reading>>

GetRealmName ==
    \E out \in {getProperty(store, "_realmName", file)} :
        Finish("get", "_realmName", out)

GetUnknownRecordTypes ==
    \E out \in {getProperty(store, "_unknownRecordTypes", file)} :
        Finish("get", "_unknownRecordTypes", out)

GetUnknownFieldNames ==
    \E out \in {getProperty(store, "_unknownFieldNames", file)} :
        Finish("get", "_unknownFieldNames", out)

GetIndex ==
    \E out \in {getProperty(store, "_index", file)} :
        Finish("get", "_index", out)

LoadRecords ==
    \E l \in {loadRecords(store, file)} :
        Finish("loadRecords", None,
               [store |-> l.store, ranLoad |-> TRUE, raised |-> l.raised,
                parsed |-> l.parsed, result |-> None])

SetRealmName ==
    \E value \in {None, "r1", "r2"} :
        LET s == setRealmName(store, value)
        IN  /\ store' = s.store
            /\ lastOp' = [op |-> "setRealmName", name |-> "_realmName", value |-> value,
                          ranLoad |-> FALSE, raised |-> s.raised, result |-> None]
            /\ UNCHANGED <<file, lastLoad, edits, pc, locals, reading>>

\* The last operation was a call of loadRecords
LoadRan == lastOp.op = "loadRecords"

----------------------------------------------------------------------------
(* The environment rewrites the source file *)

Edited(doc) ==
    /\ edits < MaxEdits
    /\ doc # file
    /\ file' = doc
    /\ edits' = edits + 1
    /\ lastOp' = [NoOp EXCEPT !.op = "edit"]
    /\ UNCHANGED <<store, lastLoad, pc, locals, reading>>

EditWellFormed == Edited([file EXCEPT !.wellFormed = ~@])

EditRoot == \E root \in Roots : Edited([file EXCEPT !.root = root])

EditRealm == \E realm \in Realms : Edited([file EXCEPT !.realm = realm])

EditClear == Edited([file EXCEPT !.records = <<>>])

EditAppendRecord ==
    \E type \in TypeTokens :
        Edited([file EXCEPT !.records = Append(@, [type |-> type, children |-> <<>>])])

EditAppendField ==
    /\ file.records # <<>>
    /\ \E tag \in Tags, text \in Texts :
        Edited([file EXCEPT !.records[Len(file.records)].children =
                    Append(@, [tag |-> tag, text |-> text])])

Next ==
    \/ GetRealmName
    \/ GetUnknownRecordTypes
    \/ GetUnknownFieldNames
    \/ GetIndex
    \/ LoadRecords
    \/ SetRealmName
    \/ EditWellFormed
    \/ EditRoot
    \/ EditRealm
    \/ EditClear
    \/ EditAppendRecord
    \/ EditAppendField

Spec == Init /\ [][Next]_vars

----------------------------------------------------------------------------
(* The parser alone: the source is written element by element, every document
   within the bounds, and then loaded *)

FieldCount(doc) ==
    LET RECURSIVE count(_)
        count(i) == IF i = 0 THEN 0
                    ELSE Len(doc.records[i].children) + count(i - 1)
    IN  count(Len(doc.records))

Written(doc) ==
    /\ ~LoadRan
    /\ file' = doc
    /\ lastOp' = [NoOp EXCEPT !.op = "edit"]
    /\ UNCHANGED <<store, lastLoad, edits, pc, locals, reading>>

WriteRecord ==
    /\ Len(file.records) < MaxRecords
    /\ \E type \in TypeTokens :
        Written([file EXCEPT !.records = Append(@, [type |-> type, children |-> <<>>])])

WriteField ==
    /\ file.records # <<>>
    /\ FieldCount(file) < MaxFields
    /\ \E tag \in Tags, text \in Texts :
        Written([file EXCEPT !.records[Len(file.records)].children =
                    Append(@, [tag |-> tag, text |-> text])])

InitParse ==
    /\ file = EmptyDirectory
    /\ InitService

NextParse ==
    \/ WriteRecord
    \/ WriteField
    \/ LoadRecords

SpecParse == InitParse /\ [][NextParse]_vars

----------------------------------------------------------------------------
(* Two threads reading properties of the same service.  Each statement of the
   getter and each of the four assignments that end loadRecords is a step. *)

Callable == {"_realmName", "_unknownRecordTypes", "_unknownFieldNames", "_index",
             "loadRecords"}

Goto(t, label) ==
    /\ pc' = [pc EXCEPT ![t] = label]
    /\ UNCHANGED <<file, lastLoad, lastOp, edits>>

\* if not hasattr(self, name), or a direct call of loadRecords
Call(t) ==
    /\ pc[t] = "idle"
    /\ \E name \in Callable :
        /\ reading' = [reading EXCEPT ![t] = name]
        /\ Goto(t, IF name = "loadRecords" \/ needsLoad(store, name)
                   THEN "parse" ELSE "return")
    /\ UNCHANGED <<store, locals>>

\* loadRecords up to the assignments: the locals are computed, or it raises
Parse(t) ==
    /\ pc[t] = "parse"
    /\ \E r \in {parseDocument(file)} :
        /\ locals' = [locals EXCEPT ![t] = r]
        /\ Goto(t, IF r.error # "none" THEN "raised" ELSE "storeRealmName")
    /\ UNCHANGED <<store, reading>>

StoreRealmName(t) ==
    /\ pc[t] = "storeRealmName"
    /\ store' = storeAttr(store, "_realmName", locals[t].realmName)
    /\ Goto(t, "storeUnknownRecordTypes")
    /\ UNCHANGED <<locals, reading>>

StoreUnknownRecordTypes(t) ==
    /\ pc[t] = "storeUnknownRecordTypes"
    /\ store' = storeAttr(store, "_unknownRecordTypes", locals[t].unknownRecordTypes)
    /\ Goto(t, "storeUnknownFieldNames")
    /\ UNCHANGED <<locals, reading>>

StoreUnknownFieldNames(t) ==
    /\ pc[t] = "storeUnknownFieldNames"
    /\ store' = storeAttr(store, "_unknownFieldNames", locals[t].unknownFieldNames)
    /\ Goto(t, "storeIndex")
    /\ UNCHANGED <<locals, reading>>

StoreIndex(t) ==
    /\ pc[t] = "storeIndex"
    /\ store' = storeAttr(store, "_index", locals[t].index)
    /\ Goto(t, "return")
    /\ UNCHANGED <<locals, reading>>

\* return self.<name>
Return(t) ==
    /\ pc[t] = "return"
    /\ Goto(t, "done")
    /\ UNCHANGED <<store, locals, reading>>

NextConc ==
    \/ \E t \in Threads :
        \/ Call(t)
        \/ Parse(t)
        \/ StoreRealmName(t)
        \/ StoreUnknownRecordTypes(t)
        \/ StoreUnknownFieldNames(t)
        \/ StoreIndex(t)
        \/ Return(t)
    \/ EditRealm
    \/ EditAppendRecord

SpecConc == Init /\ [][NextConc]_vars

----------------------------------------------------------------------------
(* Vocabulary of the properties *)

CachedNames == {"_realmName", "_unknownRecordTypes", "_unknownFieldNames", "_index"}

LoadSucceeded == LoadRan /\ lastOp.raised = "none"

\* The values a record holds for a field: the single value, or each element
HeldValues(record, fieldName) ==
    IF fieldName \in {"shortNames", "fullNames", "emailAddresses"}
    THEN {record[fieldName][k] : k \in 1..Len(record[fieldName])}
    ELSE {record[fieldName]}

\* The type token of a record node, "user" when it carries none
TypeToken(node) == IF node.type \in {Missing, ""} THEN "user" ELSE node.type
UnrecognizedType(node) == TypeToken(node) \notin {"user", "group"}

\* The element tags that name a field, and the field each names
FieldTags == {"uid", "guid", "short-name", "full-name", "email", "password"}
MultiValueTags == {"short-name", "full-name", "email"}
FieldOf(tag) ==
    CASE tag = "uid" -> "uid"
      [] tag = "guid" -> "guid"
      [] tag = "short-name" -> "shortNames"
      [] tag = "full-name" -> "fullNames"
      [] tag = "email" -> "emailAddresses"
      [] tag = "password" -> "password"

\* The texts of the children with a given tag, in document order
TextsOf(children, tag) ==
    LET at == {j \in 1..Len(children) : children[j].tag = tag}
        before(j) == Cardinality({k \in at : k < j})
    IN  [n \in 1..Cardinality(at) |->
            children[CHOOSE j \in at : before(j) = n - 1].text]

\* A document that cannot load: malformed, wrong root, realm missing or empty
BadDocument(doc) ==
    \/ ~doc.wellFormed
    \/ doc.root # "directory"
    \/ doc.realm \in {Missing, ""}

----------------------------------------------------------------------------
(* C1: a load that fails raises and leaves the cached state as it was: a load
   of a malformed document, of one whose root is not directory or of one
   without a realm raises, and any load that raises changes none of the
   cached attributes (none appears in an unloaded store, none changes in a
   loaded one). *)
C1_FailedLoadKeepsState ==
    [][lastOp'.ranLoad =>
          /\ BadDocument(file) => lastOp'.raised # "none"
          /\ lastOp'.raised # "none" => store' = store /\ lastLoad' = lastLoad]_vars

\* A loaded store whose reload has just failed on a wrong root
C1_Witness ==
    /\ LoadRan
    /\ lastOp.raised = "DirectoryServiceError"
    /\ file.root # "directory"
    /\ DOMAIN store = CachedNames
    /\ lastLoad.records # {}

(* C2: a read of one of the four properties of a fresh store runs the load,
   and once a load has succeeded no read runs it again: the read changes
   nothing and returns the cached value. *)
C2_ReadsLoadOnce ==
    [][lastOp'.op = "get" =>
          /\ store = EmptyStore => lastOp'.ranLoad
          /\ lastLoad.done =>
                /\ ~lastOp'.ranLoad
                /\ store' = store
                /\ lastLoad' = lastLoad
                /\ lastOp'.result = store[lastOp'.name]]_vars

\* A read served from the cache after a load
C2_Witness ==
    /\ lastOp.op = "get"
    /\ lastOp.name = "_unknownFieldNames"
    /\ ~lastOp.ranLoad
    /\ lastLoad.done
    /\ lastOp.result = store["_unknownFieldNames"]

(* C3: an unrecognized child element is recorded in the unknown field names
   and otherwise skipped: the load does not fail because of it, and no value
   a record holds is the text of anything but an element of that field.
   (Documents without empty texts, so that nothing else can fail.) *)
C3_UnknownFieldIgnored ==
    (/\ LoadRan
     /\ \A i \in 1..Len(file.records) :
           \A j \in 1..Len(file.records[i].children) :
              file.records[i].children[j].text # "")
    => /\ lastOp.raised = "none"
       /\ \A i \in DOMAIN lastLoad.at :
             LET children == file.records[i].children
                 record == lastLoad.at[i]
             IN  /\ \A j \in 1..Len(children) :
                       children[j].tag \notin FieldTags
                       => children[j].tag \in store["_unknownFieldNames"]
                 /\ \A fieldName \in DOMAIN record \ {"recordType"} :
                       \A value \in HeldValues(record, fieldName) :
                          \E j \in 1..Len(children) :
                             /\ children[j].tag \in FieldTags
                             /\ FieldOf(children[j].tag) = fieldName
                             /\ children[j].text = value

(* C4: when a load meets a record of unrecognized type, the token is added to
   the unknown record types and no record at or after that position is
   materialized; if it is the first record, no record is materialized and
   the index has no entries. *)
C4_UnknownRecordTypeEndsLoad ==
    LoadSucceeded =>
        \A p \in 1..Len(file.records) :
            (/\ UnrecognizedType(file.records[p])
             /\ \A q \in 1..(p - 1) : ~UnrecognizedType(file.records[q]))
            => /\ TypeToken(file.records[p]) \in store["_unknownRecordTypes"]
               /\ \A i \in DOMAIN lastLoad.at : i < p
               /\ p = 1 =>
                     /\ lastLoad.records = {}
                     /\ \A fieldName \in DOMAIN store["_index"] :
                           DOMAIN store["_index"][fieldName] = {}

\* [bad-type, good-user]: a loaded document whose first record has an
\* unrecognized type and whose second is a user with a field
C4_Witness ==
    /\ LoadSucceeded
    /\ Len(file.records) = 2
    /\ UnrecognizedType(file.records[1])
    /\ TypeToken(file.records[2]) = "user"
    /\ Len(file.records[2].children) = 1
    /\ file.records[2].children[1].tag = "uid"
    /\ file.records[2].children[1].text = "a"
    /\ lastLoad.records = {}
    /\ store["_unknownRecordTypes"] = {"bogus"}

(* C5: after a successful load, every value a materialized record holds for
   an indexed field is a key of that field's sub-index, and the record is in
   the set under that key. *)
C5_IndexCoversRecords ==
    LoadSucceeded =>
        \A record \in lastLoad.records :
            \A fieldName \in DOMAIN record \cap
                    {"recordType", "uid", "guid", "shortNames", "emailAddresses"} :
                \A value \in HeldValues(record, fieldName) :
                    /\ value \in DOMAIN store["_index"][fieldName]
                    /\ record \in store["_index"][fieldName][value]

\* A loaded record with two different short names
C5_Witness ==
    /\ LoadSucceeded
    /\ \E record \in lastLoad.records :
          /\ "shortNames" \in DOMAIN record
          /\ record["shortNames"] = <<"a", "b">>
          /\ record \in store["_index"]["shortNames"]["b"]

(* C6: when two callers have both run the load to its end, the four cached
   attributes are the results of one and the same load. *)
C6_ConcurrentLoadsAgree ==
    (\A t \in Threads : pc[t] = "done" /\ locals[t].error = "none")
    => \E t \in Threads :
          /\ store["_realmName"] = locals[t].realmName
          /\ store["_unknownRecordTypes"] = locals[t].unknownRecordTypes
          /\ store["_unknownFieldNames"] = locals[t].unknownFieldNames
          /\ store["_index"] = locals[t].index

(* C7: a record holds, for every multi-valued field, exactly the texts of the
   elements of that field among its children, in document order, whatever
   other elements stand between them. *)
C7_MultiValuesInSourceOrder ==
    LoadSucceeded =>
        \A i \in DOMAIN lastLoad.at :
            \A tag \in MultiValueTags :
                LET texts == TextsOf(file.records[i].children, tag)
                    record == lastLoad.at[i]
                IN  IF Len(texts) = 0
                    THEN FieldOf(tag) \notin DOMAIN record
                    ELSE /\ FieldOf(tag) \in DOMAIN record
                         /\ record[FieldOf(tag)] = texts

(* C8: an element of a field with empty text does not make the load fail: the
   record holds the empty string for it, and the empty string is a key of the
   sub-index of an indexed field.  (Documents with recognized elements only,
   so that nothing else can fail.) *)
C8_EmptyTextIsAValue ==
    (/\ LoadRan
     /\ \A i \in 1..Len(file.records) :
           \A j \in 1..Len(file.records[i].children) :
              file.records[i].children[j].tag \in FieldTags)
    => /\ lastOp.raised = "none"
       /\ \A i \in DOMAIN lastLoad.at :
             \A j \in 1..Len(file.records[i].children) :
                LET node == file.records[i].children[j]
                    fieldName == FieldOf(node.tag)
                    last == \A k \in (j + 1)..Len(file.records[i].children) :
                               file.records[i].children[k].tag # node.tag
                IN  (/\ node.text = ""
                     /\ node.tag \in MultiValueTags \/ last)
                    => /\ fieldName \in DOMAIN lastLoad.at[i]
                       /\ "" \in HeldValues(lastLoad.at[i], fieldName)
                       /\ fieldName \in DOMAIN store["_index"]
                          => /\ "" \in DOMAIN store["_index"][fieldName]
                             /\ lastLoad.at[i] \in store["_index"][fieldName][""]

(* C9: assigning a value other than None to realmName raises, loaded or not,
   runs no load and changes none of the cached state. *)
C9_RealmNameNotAssignable ==
    [][(lastOp'.op = "setRealmName" /\ lastOp'.value # None) =>
          /\ lastOp'.raised = "AssertionError"
          /\ ~lastOp'.ranLoad
          /\ store' = store
          /\ lastLoad' = lastLoad]_vars

\* A refused assignment on a loaded store
C9_Witness ==
    /\ lastOp.op = "setRealmName"
    /\ lastOp.value = "r2"
    /\ lastOp.raised = "AssertionError"
    /\ DOMAIN store = CachedNames
    /\ store["_realmName"] = "r1"

(* C10: the index of a loaded store has a sub-index for each of the five
   indexed fields and for no other, and every record under a key is a record
   of the load that built the index and holds that key for that field:
   nothing of an earlier load is left after a reload. *)
C10_IndexHasNoSpuriousEntries ==
    "_index" \in DOMAIN store =>
        /\ DOMAIN store["_index"] =
              {"recordType", "uid", "guid", "shortNames", "emailAddresses"}
        /\ \A fieldName \in DOMAIN store["_index"] :
              \A value \in DOMAIN store["_index"][fieldName] :
                 \A record \in store["_index"][fieldName][value] :
                    /\ record \in lastLoad.records
                    /\ fieldName \in DOMAIN record
                    /\ value \in HeldValues(record, fieldName)

\* A reload that replaced the records of an earlier load, one of the new
\* records holding full names, which are not indexed
C10_Witness ==
    /\ LoadSucceeded
    /\ lastLoad.replaced
    /\ \E record \in lastLoad.records : "fullNames" \in DOMAIN record

====
